---- MODULE Spec2Model ----
(***************************************************************************)
(* Similar-product recommendation service.                                 *)
(*                                                                         *)
(* The model covers the Qdrant-backed product repository                   *)
(* (QdrantProductRepository), the recommendation use case                  *)
(* (GetProductRecommendationsUseCase.execute) and the HTTP route           *)
(* get_recommendation.  The Qdrant server is modelled by the three         *)
(* capabilities the repository uses: upsert, retrieve by id and filtered   *)
(* nearest-neighbour search under cosine similarity.                       *)
(*                                                                         *)
(* Python values are represented as follows:                               *)
(*   None of an Optional[str] / Optional[float] / Optional[int] field      *)
(*        is the string "None";                                            *)
(*   Optional[List[float]] (Product.embedding) is a sequence of at most    *)
(*        one list: << >> is None, << l >> is the list l;                  *)
(*   a similarity score is the cosine similarity in hundredths (100 is     *)
(*        the score 1.0).                                                  *)
(***************************************************************************)
EXTENDS Integers, Sequences, FiniteSets, TLC

VARIABLES
    collections,  \* the collections of the Qdrant server: records name/size/distance
    index,        \* the points of collection "products": id -> << >> or << point >>
    pc,           \* per client: where its current call stands
    op,           \* per client: the repository / route operation it runs
    arg,          \* per client: the argument of the operation
    product,      \* per client: find_similar_products' local `product` (0 or 1 element)
    embedding,    \* per client: find_similar_products' local `embedding` (0 or 1 element)
    hits,         \* per client: the `search_result` the index returned
    outcome,      \* per client: what the operation returned or raised
    faulted,      \* per client: a Gateway call of the operation met a backend failure
    stored,       \* history: per id, the product of the last upsert the index accepted
    upserts,      \* history, per client: the upsert calls its operation issued (lists of points)
    pre_collections, \* history, per client: the server's collections when its call began
    pre_index,    \* history, per client: the points at its constructor's check, then at execute's first read
    catalog,      \* the rows of the catalog file data/products.csv
    rows,         \* per client: the pipeline's data (DataFrame, then list of dicts)
    snapshots,    \* the snapshot files: date -> << >> or << rows written >>
    today,        \* the current date
    same_runs,    \* history: persists of the present catalog since it, or the index, was last changed otherwise
    price_in,     \* the string handed to convert_price_to_usd
    price_out     \* what convert_price_to_usd returned for it (<< >>: not yet called)

serviceVars == <<collections, index, pc, op, arg, product, embedding, hits, outcome,
                 faulted, stored, upserts, pre_collections, pre_index>>
pipelineVars == <<catalog, rows, snapshots, today, same_runs>>
priceVars == <<price_in, price_out>>
offlineVars == <<catalog, rows, snapshots, today, price_in, price_out>>

vars == <<serviceVars, pipelineVars, priceVars>>

----------------------------------------------------------------------------
(* Bounds of the model *)

NumClients == 2     \* clients (requests, pipeline runs) the model distinguishes
MaxLimit == 2       \* explicit positive `limit` query values range over 1..MaxLimit
MaxBatch == 2       \* longest list handed to batch_save_products
MaxDays == 2        \* the dates the model runs through are 1 .. MaxDays
MaxRuns == 2        \* pipeline runs counted on an unchanged catalog
MaxPriceLen == 4    \* longest enumerated price string
VectorSize == 2     \* the repository's configured vector_size

(* Program constants *)

DefaultRecommendationLimit == 5

CollectionName == "products"

Clients == 1 .. NumClients

Dates == 1 .. MaxDays
SeqClients == {1}

Ids == {"P1", "P2", "P3", "P4"}

None == "None"

----------------------------------------------------------------------------
(* Vectors and cosine similarity *)

Pad(a, b) == [i \in 1 .. VectorSize |-> IF i = 1 THEN a ELSE IF i = 2 THEN b ELSE 0]

VecA == Pad(3, 4)
VecB == Pad(4, 3)
VecC == Pad(5, 0)

Vectors == {VecA, VecB, VecC}

\* a list of floats one element shorter than the configured vector size
ShortVec == [i \in 1 .. (VectorSize - 1) |-> 5]

RECURSIVE DotFrom(_, _, _)
DotFrom(u, v, i) ==
    IF i > Len(u) \/ i > Len(v) THEN 0 ELSE u[i] * v[i] + DotFrom(u, v, i + 1)

Dot(u, v) == DotFrom(u, v, 1)

ISqrt(n) == CHOOSE r \in 0 .. n : r * r <= n /\ (r + 1) * (r + 1) > n

Norm(v) == ISqrt(Dot(v, v))

\* cosine similarity of q and v, in hundredths
CosineScore(q, v) ==
    IF Norm(q) = 0 \/ Norm(v) = 0 THEN 0
    ELSE (Dot(q, v) * 100) \div (Norm(q) * Norm(v))

Min(a, b) == IF a <= b THEN a ELSE b

Range(s) == {s[i] : i \in DOMAIN s}

----------------------------------------------------------------------------
(* Product entity *)

Product(id, name, main, sub, ratings, n, price, usd, emb) ==
    [product_id |-> id, product_name |-> name, main_category |-> main,
     sub_category |-> sub, ratings |-> ratings, no_of_ratings |-> n,
     price |-> price, price_usd |-> usd, embedding |-> emb]

\* the two catalog rows a product is built from
Variants == {1, 2}

VariantProduct(id, v, emb) ==
    IF v = 1
    THEN Product(id, "Phone", "Electronics", "Smartphones", "4.5", "100",
                 "B7,999", "$279.97", emb)
    ELSE Product(id, "Laptop", "Computers", "Laptops", None, None,
                 "N/A", "N/A", emb)

EmbeddingInputs ==
    {<< >>, << << >> >>, << ShortVec >>} \cup {<< v >> : v \in Vectors}

ProductInputs ==
    {VariantProduct(id, v, e) : id \in Ids, v \in Variants, e \in EmbeddingInputs}

BatchProducts ==
    {VariantProduct("P1", 1, << VecA >>), VariantProduct("P2", 1, << VecB >>),
     VariantProduct("P3", 2, << >>), VariantProduct("P2", 2, << ShortVec >>),
     VariantProduct("P4", 1, << << >> >>)}

BatchInputs == UNION {[1 .. n -> BatchProducts] : n \in 0 .. MaxBatch}

\* Python's `not product.embedding`: None or the empty list
NoEmbedding(p) == p.embedding = << >> \/ p.embedding[1] = << >>

----------------------------------------------------------------------------
(* The Qdrant server, as the repository uses it *)

NoPoint == << >>

Present(idx, id) == id \in Ids /\ idx[id] # NoPoint

CollectionExists(cols) == \E col \in cols : col.name = CollectionName

AlwaysMissing(cols) == TRUE

\* _ensure_collection_exists: self.collection_name not in collection_names
MissingCollection(cols) == CollectionName \notin {col.name : col \in cols}

\* client.upsert validates every vector against the collection's size and
\* rejects the whole request when one does not fit
UpsertAccepted(cols, points) ==
    /\ CollectionExists(cols)
    /\ \A i \in DOMAIN points :
           \A col \in cols :
               col.name = CollectionName => Len(points[i].vector) = col.size

UpsertOrEvict(idx, points) ==
    [id \in Ids |->
        IF \A i \in DOMAIN points : points[i].id # id THEN idx[id]
        ELSE IF idx[id] # NoPoint THEN NoPoint
        ELSE LET i == CHOOSE j \in DOMAIN points : points[j].id = id
             IN  << [vector |-> points[i].vector, payload |-> points[i].payload] >>]

InsertOnly(idx, points) ==
    [id \in Ids |->
        IF idx[id] # NoPoint \/ \A i \in DOMAIN points : points[i].id # id
        THEN idx[id]
        ELSE LET i == CHOOSE j \in DOMAIN points : points[j].id = id
             IN  << [vector |-> points[i].vector, payload |-> points[i].payload] >>]

RECURSIVE UpsertFrom(_, _, _)
UpsertFrom(idx, points, i) ==
    IF i > Len(points) THEN idx
    ELSE UpsertFrom([idx EXCEPT ![points[i].id] =
                        << [vector |-> points[i].vector, payload |-> points[i].payload] >>],
                    points, i + 1)

\* client.upsert: insert-or-overwrite by point id, in request order
Upsert(idx, points) == UpsertFrom(idx, points, 1)

\* client.retrieve(ids=[id], with_vectors=...): a list of 0 or 1 records
Retrieve(idx, id, with_vectors) ==
    IF ~Present(idx, id) THEN << >>
    ELSE << [id |-> id, payload |-> idx[id][1].payload,
             vector |-> IF with_vectors THEN << idx[id][1].vector >> ELSE << >>] >>

MatchesAny(payload, value) == TRUE

\* models.Filter(must=[FieldCondition(key="sub_category", match=value)])
MatchesFilter(payload, value) == payload.sub_category = value

Matching(idx, value) ==
    {id \in Ids : Present(idx, id) /\ MatchesFilter(idx[id][1].payload, value)}

ScoreOf(idx, q, id) == CosineScore(q, idx[id][1].vector)

\* client.search(query_vector=q, limit=n, query_filter=...): the n best matching
\* points, best score first; which of several equally scored points comes first,
\* or is cut off, is the index's choice
SearchResults(idx, q, n, value) ==
    LET M == Matching(idx, value)
        m == Min(n, Cardinality(M))
        Orders == {s \in [1 .. m -> M] :
                     /\ \A i, j \in 1 .. m : i # j => s[i] # s[j]
                     /\ \A i \in 1 .. (m - 1) :
                            ScoreOf(idx, q, s[i]) >= ScoreOf(idx, q, s[i + 1])
                     /\ \A id \in M \ Range(s) :
                            \A i \in 1 .. m : ScoreOf(idx, q, id) <= ScoreOf(idx, q, s[i])}
    IN  {[i \in 1 .. m |-> [id |-> s[i], payload |-> idx[s[i]][1].payload,
                            score |-> ScoreOf(idx, q, s[i])]] : s \in Orders}

----------------------------------------------------------------------------
(* QdrantProductRepository *)

product_to_point(p) ==
    [id |-> p.product_id,
     vector |-> p.embedding[1],
     payload |-> [product_id |-> p.product_id, product_name |-> p.product_name,
                  main_category |-> p.main_category, sub_category |-> p.sub_category,
                  ratings |-> p.ratings, no_of_ratings |-> p.no_of_ratings,
                  price |-> p.price]]

\* Product(...) built from a payload: price_usd and embedding keep their defaults
point_to_product(payload) ==
    Product(payload.product_id, payload.product_name, payload.main_category,
            payload.sub_category, payload.ratings, payload.no_of_ratings,
            payload.price, None, << >>)

RECURSIVE PointsFrom(_, _)
PointsFrom(products, i) ==
    IF i > Len(products) THEN << >>
    ELSE << product_to_point(products[i]) >> \o PointsFrom(products, i + 1)

RECURSIVE PointsBackwards(_, _)
PointsBackwards(products, i) ==
    IF i = 0 THEN << >>
    ELSE << product_to_point(products[i]) >> \o PointsBackwards(products, i - 1)

BatchPointsReversed(products) == PointsBackwards(products, Len(products))

\* the points batch_save_products builds (every product carries an embedding)
BatchPoints(products) == PointsFrom(products, 1)

SearchLimitExact(limit) == limit

\* limit=limit + 1 of find_similar_products' search
SearchLimit(limit) == limit + 1

KeepSelf(search_result, product_id) ==
    [i \in 1 .. Len(search_result) |->
        [product |-> point_to_product(search_result[i].payload),
         score |-> search_result[i].score]]

\* the loop of find_similar_products: drop the anchor, convert the rest
ExcludeSelf(search_result, product_id) ==
    LET kept == SelectSeq(search_result, LAMBDA r : r.id # product_id)
    IN  [i \in 1 .. Len(kept) |->
            [product |-> point_to_product(kept[i].payload), score |-> kept[i].score]]

\* similar_products[:limit]
Truncate(similar, limit) == SubSeq(similar, 1, Min(limit, Len(similar)))

----------------------------------------------------------------------------
(* GetProductRecommendationsUseCase and the route *)

NoOutcome == [kind |-> "none", results |-> << >>]
NotFound == [kind |-> "not_found", results |-> << >>]          \* execute returns None: HTTP 404
BadRequest == [kind |-> "bad_request", results |-> << >>]      \* HTTP 400
ServerError == [kind |-> "error", results |-> << >>]           \* an exception leaves the route
Saved == [kind |-> "saved", results |-> << >>]                 \* save returned None
ValueError == [kind |-> "value_error", results |-> << >>]      \* raised by the repository
IndexError == [kind |-> "index_error", results |-> << >>]      \* raised by the Qdrant client

Recommendation(p, distance) ==
    [product |-> [product_id |-> p.product_id, category |-> p.main_category,
                  sub_category |-> p.sub_category, price |-> p.price_usd],
     distance |-> distance]

ProjectRescored(similar) ==
    [i \in 1 .. Len(similar) |-> Recommendation(similar[i].product, 100 - similar[i].score)]

ProjectReversed(similar) ==
    [i \in 1 .. Len(similar) |->
        Recommendation(similar[Len(similar) + 1 - i].product,
                       similar[Len(similar) + 1 - i].score)]

\* the loop of execute: one ProductRecommendation per (product, distance) pair
ProjectResults(similar) ==
    [i \in 1 .. Len(similar) |-> Recommendation(similar[i].product, similar[i].score)]

NoneWhenEmpty(similar) ==
    IF similar = << >> THEN NotFound
    ELSE [kind |-> "recommendations", results |-> ProjectResults(similar)]

\* execute's return value once the anchor was found
Recommendations(similar) ==
    [kind |-> "recommendations", results |-> ProjectResults(similar)]

NeverMissing(found) == FALSE

\* execute's `if not product`
AnchorMissing(found) == found = << >>

\* the query parameter `limit`: << >> is an absent parameter
LimitParams == {<< >>} \cup {<< n >> : n \in (-1) .. MaxLimit}

\* limit or settings.default_recommendation_limit
EffectiveLimit(param) ==
    IF param = << >> \/ param[1] = 0 THEN DefaultRecommendationLimit ELSE param[1]

----------------------------------------------------------------------------
(* State machine *)

NoArg == [product_id |-> None, limit |-> 0, query_limit |-> << >>]

\* a server without collections
InitIndex ==
    /\ collections = {}
    /\ index = [id \in Ids |-> NoPoint]
    /\ stored = [id \in Ids |-> << >>]

\* no request, run or call has begun
InitClients ==
    /\ pc = [c \in Clients |-> "idle"]
    /\ op = [c \in Clients |-> None]
    /\ arg = [c \in Clients |-> NoArg]
    /\ product = [c \in Clients |-> << >>]
    /\ embedding = [c \in Clients |-> << >>]
    /\ hits = [c \in Clients |-> << >>]
    /\ outcome = [c \in Clients |-> NoOutcome]
    /\ faulted = [c \in Clients |-> FALSE]
    /\ upserts = [c \in Clients |-> << >>]
    /\ pre_collections = [c \in Clients |-> {}]
    /\ pre_index = [c \in Clients |-> [id \in Ids |-> NoPoint]]
    /\ rows = [c \in Clients |-> << >>]
    /\ snapshots = [d \in Dates |-> << >>]
    /\ today = 1
    /\ same_runs = 0
    /\ price_out = << >>

InitState == InitIndex /\ InitClients

Init == InitState /\ catalog = << >> /\ price_in = << >>

RECURSIVE RememberFrom(_, _, _)
RememberFrom(h, products, i) ==
    IF i > Len(products) THEN h
    ELSE RememberFrom([h EXCEPT ![products[i].product_id] = << products[i] >>],
                      products, i + 1)

\* the history after the index accepted an upsert of `products`
Remember(h, products) == RememberFrom(h, products, 1)

Goto(c, label) == pc' = [pc EXCEPT ![c] = label]

Finish(c, result, fault) ==
    /\ pc' = [pc EXCEPT ![c] = "done"]
    /\ outcome' = [outcome EXCEPT ![c] = result]
    /\ faulted' = [faulted EXCEPT ![c] = fault]

\* QdrantProductRepository(): _ensure_collection_exists lists the collections
EnsureCollection(c, at, missing, present) ==
    /\ pc[c] = at
    /\ IF MissingCollection(collections) THEN Goto(c, missing) ELSE Goto(c, present)
    /\ pre_collections' = [pre_collections EXCEPT ![c] = collections]
    /\ pre_index' = [pre_index EXCEPT ![c] = index]
    /\ UNCHANGED <<collections, index, op, arg, product, embedding, hits, outcome, faulted, stored>>
    /\ UNCHANGED <<upserts, same_runs, offlineVars>>

Construct(c) == EnsureCollection(c, "idle", "create", "ready")

\* ... and creates the one it missed; Qdrant refuses to create an existing one
CreateMissing(c, at, created) ==
    /\ pc[c] = at
    /\ IF CollectionExists(collections)
       THEN /\ Finish(c, IndexError, FALSE)
            /\ op' = [op EXCEPT ![c] = "construct"]
            /\ UNCHANGED collections
       ELSE /\ collections' = collections \cup
                   {[name |-> CollectionName, size |-> VectorSize, distance |-> "Cosine"]}
            /\ Goto(c, created)
            /\ UNCHANGED <<op, outcome, faulted>>
    /\ UNCHANGED <<index, arg, product, embedding, hits, stored>>
    /\ UNCHANGED <<upserts, pre_collections, pre_index, same_runs, offlineVars>>

CreateCollection(c) == CreateMissing(c, "create", "ready")

\* save_product(p)
SaveProduct(c) ==
    /\ pc[c] = "ready"
    /\ \E p \in ProductInputs :
        /\ op' = [op EXCEPT ![c] = "save_product"]
        /\ arg' = [arg EXCEPT ![c] = p]
        /\ IF NoEmbedding(p)
           THEN Finish(c, ValueError, FALSE) /\ UNCHANGED <<index, stored, upserts, same_runs>>
           ELSE /\ upserts' = [upserts EXCEPT ![c] = Append(@, << product_to_point(p) >>)]
                /\ IF UpsertAccepted(collections, << product_to_point(p) >>)
                   THEN /\ index' = Upsert(index, << product_to_point(p) >>)
                        /\ stored' = Remember(stored, << p >>)
                        /\ same_runs' = 0
                        /\ Finish(c, Saved, FALSE)
                   ELSE Finish(c, IndexError, FALSE) /\ UNCHANGED <<index, stored, same_runs>>
    /\ UNCHANGED <<collections, product, embedding, hits, pre_collections, pre_index, offlineVars>>

\* batch_save_products, lines 110-114: `if points:` one client.upsert
BatchUpsert(c, products, saved, runs_if_empty, runs_if_upserted) ==
    IF BatchPoints(products) = << >>
    THEN saved /\ same_runs' = runs_if_empty /\ UNCHANGED <<index, stored, upserts>>
    ELSE /\ upserts' = [upserts EXCEPT ![c] = Append(@, BatchPoints(products))]
         /\ IF UpsertAccepted(collections, BatchPoints(products))
            THEN /\ index' = Upsert(index, BatchPoints(products))
                 /\ stored' = Remember(stored, products)
                 /\ same_runs' = runs_if_upserted
                 /\ saved
            ELSE Finish(c, IndexError, FALSE) /\ UNCHANGED <<index, stored, same_runs>>

\* the products before the first one without an embedding
EmbeddedPrefix(products) ==
    SubSeq(products, 1,
           (CHOOSE i \in DOMAIN products :
                /\ NoEmbedding(products[i])
                /\ \A j \in 1 .. i - 1 : ~NoEmbedding(products[j])) - 1)

BatchSaveEager(c, products, saved, runs_if_empty, runs_if_upserted) ==
    IF \E i \in DOMAIN products : NoEmbedding(products[i])
    THEN /\ Finish(c, ValueError, FALSE)
         /\ IF EmbeddedPrefix(products) # << >>
               /\ UpsertAccepted(collections, BatchPoints(EmbeddedPrefix(products)))
            THEN /\ upserts' = [upserts EXCEPT
                                   ![c] = Append(@, BatchPoints(EmbeddedPrefix(products)))]
                 /\ index' = Upsert(index, BatchPoints(EmbeddedPrefix(products)))
                 /\ stored' = Remember(stored, EmbeddedPrefix(products))
                 /\ same_runs' = 0
            ELSE UNCHANGED <<index, stored, upserts, same_runs>>
    ELSE BatchUpsert(c, products, saved, runs_if_empty, runs_if_upserted)

\* batch_save_products(products); `saved` is the caller's step after it returned
BatchSave(c, products, saved, runs_if_empty, runs_if_upserted) ==
    IF \E i \in DOMAIN products : NoEmbedding(products[i])
    THEN Finish(c, ValueError, FALSE) /\ UNCHANGED <<index, stored, upserts, same_runs>>
    ELSE BatchUpsert(c, products, saved, runs_if_empty, runs_if_upserted)

BatchSaveProducts(c) ==
    /\ pc[c] = "ready"
    /\ \E products \in BatchInputs :
        /\ op' = [op EXCEPT ![c] = "batch_save_products"]
        /\ arg' = [arg EXCEPT ![c] = products]
        /\ BatchSave(c, products, Finish(c, Saved, FALSE), same_runs, 0)
    /\ UNCHANGED <<collections, product, embedding, hits, pre_collections, pre_index, offlineVars>>

\* get_recommendation(product_id, limit) up to the call of use_case.execute
Request(c, product_ids, limits) ==
    /\ pc[c] = "ready"
    /\ \E id \in product_ids, param \in limits :
        /\ op' = [op EXCEPT ![c] = "recommend"]
        /\ arg' = [arg EXCEPT ![c] = [product_id |-> id, limit |-> EffectiveLimit(param),
                                      query_limit |-> param]]
        /\ IF EffectiveLimit(param) < 1
           THEN Finish(c, BadRequest, FALSE)
           ELSE Goto(c, "exec_get") /\ UNCHANGED <<outcome, faulted>>
    /\ UNCHANGED <<collections, index, product, embedding, hits, stored>>
    /\ UNCHANGED <<upserts, pre_collections, pre_index, same_runs, offlineVars>>

GetRecommendation(c) == Request(c, Ids, LimitParams)

\* get_product_by_id: the retrieved points, or nothing when retrieve raised
GetProductById(idx, id, fault) ==
    IF fault THEN << >>
    ELSE LET points == Retrieve(idx, id, FALSE)
         IN  IF points = << >> THEN << >> ELSE << point_to_product(points[1].payload) >>

\* execute: product = get_product_by_id(product_id); if not product: return None
ExecGetProduct(c) ==
    /\ pc[c] = "exec_get"
    /\ \E fault \in BOOLEAN :
        IF AnchorMissing(GetProductById(index, arg[c].product_id, fault))
        THEN Finish(c, NotFound, fault)
        ELSE Goto(c, "find_get") /\ UNCHANGED <<outcome, faulted>>
    /\ pre_index' = [pre_index EXCEPT ![c] = index]
    /\ UNCHANGED <<collections, index, op, arg, product, embedding, hits, stored>>
    /\ UNCHANGED <<upserts, pre_collections, same_runs, offlineVars>>

\* find_similar_products: product = get_product_by_id(product_id); if not product: return []
FindGetProduct(c) ==
    /\ pc[c] = "find_get"
    /\ \E fault \in BOOLEAN :
        LET found == GetProductById(index, arg[c].product_id, fault)
        IN  IF found = << >>
            THEN Finish(c, Recommendations(<< >>), fault) /\ UNCHANGED product
            ELSE /\ product' = [product EXCEPT ![c] = found]
                 /\ Goto(c, "find_vec")
                 /\ UNCHANGED <<outcome, faulted>>
    /\ UNCHANGED <<collections, index, op, arg, embedding, hits, stored>>
    /\ UNCHANGED <<upserts, pre_collections, pre_index, same_runs, offlineVars>>

\* find_similar_products: embedding = retrieve(ids=[product_id], with_vectors=True)
FindRetrieveVector(c) ==
    /\ pc[c] = "find_vec"
    /\ \E fault \in BOOLEAN :
        IF fault
        THEN Finish(c, ServerError, TRUE) /\ UNCHANGED embedding
        ELSE LET points == Retrieve(index, arg[c].product_id, TRUE)
             IN  IF points = << >>
                 THEN Finish(c, Recommendations(<< >>), FALSE) /\ UNCHANGED embedding
                 ELSE /\ embedding' = [embedding EXCEPT ![c] = points]
                      /\ Goto(c, "find_search")
                      /\ UNCHANGED <<outcome, faulted>>
    /\ UNCHANGED <<collections, index, op, arg, product, hits, stored>>
    /\ UNCHANGED <<upserts, pre_collections, pre_index, same_runs, offlineVars>>

SharedAnchorRead(c) ==
    LET holders == {d \in Clients : product[d] # << >>}
    IN  product[CHOOSE d \in holders : \A e \in holders : d <= e]

\* find_similar_products' local variable `product` of call c
AnchorRead(c) == product[c]

\* find_similar_products from the search on, and the rest of execute
FindSearch(c) ==
    /\ pc[c] = "find_search"
    /\ \E fault \in BOOLEAN :
        IF fault
        THEN Finish(c, ServerError, TRUE) /\ UNCHANGED hits
        ELSE \E search_result \in
                   SearchResults(index, embedding[c][1].vector[1],
                                 SearchLimit(arg[c].limit), AnchorRead(c)[1].sub_category) :
                /\ hits' = [hits EXCEPT ![c] = search_result]
                /\ Finish(c, Recommendations(
                                 Truncate(ExcludeSelf(search_result, arg[c].product_id),
                                          arg[c].limit)), FALSE)
    /\ UNCHANGED <<collections, index, op, arg, product, embedding, stored>>
    /\ UNCHANGED <<upserts, pre_collections, pre_index, same_runs, offlineVars>>

\* the response is sent; the repository instance is dropped
Return(c) ==
    /\ pc[c] = "done"
    /\ pc' = [pc EXCEPT ![c] = "idle"]
    /\ op' = [op EXCEPT ![c] = None]
    /\ arg' = [arg EXCEPT ![c] = NoArg]
    /\ product' = [product EXCEPT ![c] = << >>]
    /\ embedding' = [embedding EXCEPT ![c] = << >>]
    /\ hits' = [hits EXCEPT ![c] = << >>]
    /\ outcome' = [outcome EXCEPT ![c] = NoOutcome]
    /\ faulted' = [faulted EXCEPT ![c] = FALSE]
    /\ upserts' = [upserts EXCEPT ![c] = << >>]
    /\ pre_collections' = [pre_collections EXCEPT ![c] = {}]
    /\ pre_index' = [pre_index EXCEPT ![c] = [id \in Ids |-> NoPoint]]
    /\ rows' = [rows EXCEPT ![c] = << >>]
    /\ UNCHANGED <<collections, index, stored, same_runs>>
    /\ UNCHANGED <<catalog, snapshots, today, price_in, price_out>>

Step(c) ==
    \/ Construct(c)
    \/ CreateCollection(c)
    \/ SaveProduct(c)
    \/ BatchSaveProducts(c)
    \/ GetRecommendation(c)
    \/ ExecGetProduct(c)
    \/ FindGetProduct(c)
    \/ FindRetrieveVector(c)
    \/ FindSearch(c)
    \/ Return(c)

\* one caller at a time: requests and saves do not overlap
Next == \E c \in SeqClients : Step(c)

Spec == Init /\ [][Next]_vars

----------------------------------------------------------------------------
(* Properties *)

\* client c's recommend request has been answered
Answered(c) == pc[c] = "done" /\ op[c] = "recommend"

\* ... and the Engine was reached (the limit passed the route's check)
Recommended(c) == Answered(c) /\ outcome[c].kind # "bad_request"

Anchor(c) == arg[c].product_id

SubCategoryOf(id) == index[id][1].payload.sub_category

\* the indexed products other than id that share id's sub_category
Peers(id) ==
    {q \in Ids \ {id} : Present(index, q) /\ SubCategoryOf(q) = SubCategoryOf(id)}

ResultIds(c) == [i \in DOMAIN outcome[c].results |-> outcome[c].results[i].product.product_id]

HitIds(c) == {hits[c][i].id : i \in DOMAIN hits[c]}

\* C1: with a healthy index, recommend(X, k) on an indexed anchor X returns a
\* RecommendationSet of exactly min(k, P) results, P the number of X's peers;
\* it does not raise when P < k.
C1_ExactCount ==
    \A c \in Clients :
        (Recommended(c) /\ ~faulted[c] /\ Present(index, Anchor(c)))
        => /\ outcome[c].kind = "recommendations"
           /\ Len(outcome[c].results) =
                  Min(arg[c].limit, Cardinality(Peers(Anchor(c))))

\* a request with fewer peers than k answered with all of them
C1_Witness ==
    \E c \in Clients :
        /\ Recommended(c) /\ ~faulted[c] /\ Present(index, Anchor(c))
        /\ Cardinality(Peers(Anchor(c))) = 1
        /\ arg[c].limit = 2
        /\ Len(outcome[c].results) = 1

\* C2: no result of recommend(X, k) has product_id X.
C2_NoSelf ==
    \A c \in Clients :
        Answered(c) => \A i \in DOMAIN outcome[c].results : ResultIds(c)[i] # Anchor(c)

\* the search returned the anchor among its hits and other products were recommended
C2_Witness ==
    \E c \in Clients :
        /\ Answered(c)
        /\ Anchor(c) \in HitIds(c)
        /\ outcome[c].results # << >>

\* C3: every result of recommend(X, k) is an indexed product of X's sub_category.
C3_SameSubCategory ==
    \A c \in Clients :
        Answered(c) =>
            \A i \in DOMAIN outcome[c].results :
                /\ Present(index, Anchor(c))
                /\ ResultIds(c)[i] \in Peers(Anchor(c))
                /\ outcome[c].results[i].product.sub_category = SubCategoryOf(Anchor(c))

\* anchor P1 with peers P2 (0.96) and P3 (0.60) in Smartphones and the closer P4
\* (1.00) in Laptops: recommend(P1, 2) = [P2, P3]
C3_Witness ==
    \E c \in Clients :
        /\ Answered(c) /\ Anchor(c) = "P1" /\ arg[c].limit = 2
        /\ \A id \in Ids : Present(index, id)
        /\ SubCategoryOf("P1") = "Smartphones" /\ SubCategoryOf("P2") = "Smartphones"
        /\ SubCategoryOf("P3") = "Smartphones" /\ SubCategoryOf("P4") = "Laptops"
        /\ ScoreOf(index, index["P1"][1].vector, "P4") > ScoreOf(index, index["P1"][1].vector, "P2")
        /\ ScoreOf(index, index["P1"][1].vector, "P2") > ScoreOf(index, index["P1"][1].vector, "P3")
        /\ ResultIds(c) = << "P2", "P3" >>

\* C4 as stated: the distance values of consecutive results never decrease.
C4_NonDecreasingDistance ==
    \A c \in Clients :
        Answered(c) =>
            \A i \in 1 .. (Len(outcome[c].results) - 1) :
                outcome[c].results[i].distance <= outcome[c].results[i + 1].distance

\* C4 amended: the value reported as `distance` is the index's cosine similarity
\* score, and results come nearest first: the values of consecutive results never
\* increase.
C4_NonIncreasingScore ==
    \A c \in Clients :
        Answered(c) =>
            \A i \in 1 .. (Len(outcome[c].results) - 1) :
                outcome[c].results[i].distance >= outcome[c].results[i + 1].distance

\* two results with different scores
C4_Witness ==
    \E c \in Clients :
        /\ Answered(c)
        /\ Len(outcome[c].results) = 2
        /\ outcome[c].results[1].distance > outcome[c].results[2].distance

\* C5: recommend on an id absent from the index answers NotFound.
C5_AbsentIsNotFound ==
    \A c \in Clients :
        (Recommended(c) /\ ~Present(index, Anchor(c))) => outcome[c] = NotFound

\* a request for an absent id answered over a healthy index
C5_Witness ==
    \E c \in Clients :
        /\ Recommended(c) /\ ~faulted[c] /\ ~Present(index, Anchor(c))
        /\ \E id \in Ids : Present(index, id)
        /\ outcome[c].kind = "not_found"

\* C6: with a healthy index, recommend on an indexed anchor without peers answers
\* an empty RecommendationSet.
C6_NoPeersIsEmpty ==
    \A c \in Clients :
        (Recommended(c) /\ ~faulted[c] /\ Present(index, Anchor(c))
            /\ Peers(Anchor(c)) = {})
        => outcome[c] = [kind |-> "recommendations", results |-> << >>]

\* the anchor is indexed next to products of another sub_category only
C6_Witness ==
    \E c \in Clients :
        /\ Recommended(c) /\ ~faulted[c] /\ Present(index, Anchor(c))
        /\ Peers(Anchor(c)) = {}
        /\ \E id \in Ids \ {Anchor(c)} : Present(index, id)
        /\ HitIds(c) = {Anchor(c)}
        /\ outcome[c].kind = "recommendations"

\* C7: a backend failure during a Gateway call of recommend reaches the caller as
\* an error, never as NotFound or as a RecommendationSet.
C7_FailureSurfaced ==
    \A c \in Clients : (Answered(c) /\ faulted[c]) => outcome[c].kind = "error"

WrongSize(p) == ~NoEmbedding(p) /\ Len(p.embedding[1]) # VectorSize

\* C8: save_product / batch_save_products with an embedding of the wrong length
\* raises the repository's validation error and leaves the index as it was.
C8_WrongSizeIsValidationError ==
    [][\A c \in Clients :
          /\ (pc[c] = "ready" /\ pc'[c] = "done" /\ op'[c] = "save_product"
                /\ WrongSize(arg'[c]))
             => (outcome'[c] = ValueError /\ index' = index)
          /\ (pc[c] = "ready" /\ pc'[c] = "done" /\ op'[c] = "batch_save_products"
                /\ \E i \in DOMAIN arg'[c] : WrongSize(arg'[c][i]))
             => (outcome'[c] = ValueError /\ index' = index)]_vars

PayloadFields ==
    {"product_id", "product_name", "main_category", "sub_category", "ratings",
     "no_of_ratings", "price", "price_usd"}

\* C9: the point save_product wrote for p has p's embedding as vector and a payload
\* with the eight fields of p.
C9_PointCarriesAllFields ==
    \A c \in Clients :
        (pc[c] = "done" /\ op[c] = "save_product" /\ outcome[c] = Saved)
        => LET p == arg[c]
               point == index[p.product_id]
           IN  /\ point # NoPoint
               /\ point[1].vector = p.embedding[1]
               /\ DOMAIN point[1].payload = PayloadFields
               /\ \A f \in PayloadFields : point[1].payload[f] = p[f]

\* C10: a recommended product's projection carries the price_usd it was saved with.
C10_PriceSurvives ==
    \A c \in Clients :
        Answered(c) =>
            \A i \in DOMAIN outcome[c].results :
                LET r == outcome[c].results[i].product
                    q == stored[r.product_id]
                IN  /\ q # << >>
                    /\ r.price = q[1].price_usd
                    /\ r.category = q[1].main_category
                    /\ r.sub_category = q[1].sub_category

(***************************************************************************)
(* convert_price_to_usd.  A string is the sequence of its characters; "B"  *)
(* stands for the baht sign.                                               *)
(***************************************************************************)

Baht == "B"

DigitChars == <<"0", "1", "2", "3", "4", "5", "6", "7", "8", "9">>

IsDigit(ch) == \E i \in DOMAIN DigitChars : DigitChars[i] = ch

DigitValue(ch) == (CHOOSE i \in DOMAIN DigitChars : DigitChars[i] = ch) - 1

NotBahtOrComma(ch) == ch \notin {Baht, ","}

\* price_str.replace(baht, '').replace(',', '')
Strip(price_str) == SelectSeq(price_str, NotBahtOrComma)

NotPoint(ch) == ch # "."

\* float(s) accepts s: digits with at most one decimal point and at least one digit
\* (the characters enumerated here have no sign, exponent or blank)
ParsesAsFloat(s) ==
    /\ \A i \in DOMAIN s : IsDigit(s[i]) \/ s[i] = "."
    /\ Len(s) - Len(SelectSeq(s, NotPoint)) <= 1
    /\ \E i \in DOMAIN s : IsDigit(s[i])

RECURSIVE ValueFrom(_, _, _)
ValueFrom(digits, i, acc) ==
    IF i > Len(digits) THEN acc
    ELSE ValueFrom(digits, i + 1, 10 * acc + DigitValue(digits[i]))

\* float(s) as a decimal: Mantissa(s) / 10^Scale(s)
Mantissa(s) == ValueFrom(SelectSeq(s, NotPoint), 1, 0)

Scale(s) ==
    IF \A i \in DOMAIN s : s[i] # "." THEN 0
    ELSE Len(s) - (CHOOSE i \in DOMAIN s : s[i] = ".")

RECURSIVE Pow10(_)
Pow10(n) == IF n = 0 THEN 1 ELSE 10 * Pow10(n - 1)

\* exchange_rate = 0.035 = RateNumerator / RateDenominator
RateNumerator == 35
RateDenominator == 1000

\* price_thb * exchange_rate in cents, rounded as the format :.2f rounds it
UsdCents(s) ==
    LET den == Pow10(Scale(s)) * (RateDenominator \div 100)
    IN  (2 * Mantissa(s) * RateNumerator + den) \div (2 * den)

RECURSIVE Digits(_)
Digits(n) ==
    IF n < 10 THEN << DigitChars[n + 1] >>
    ELSE Digits(n \div 10) \o << DigitChars[(n % 10) + 1] >>

\* f"${price_usd:.2f}"
FormatUsd(cents) ==
    << "$" >> \o Digits(cents \div 100) \o << "." >>
        \o << DigitChars[((cents % 100) \div 10) + 1], DigitChars[(cents % 10) + 1] >>

\* convert_price_to_usd(price_str): price_str is rebound to the stripped string before
\* float() is tried, so the except branch returns the stripped string
convert_price_to_usd(price_str) ==
    LET stripped == Strip(price_str)
    IN  IF ParsesAsFloat(stripped) THEN FormatUsd(UsdCents(stripped)) ELSE stripped

\* the digits 7 and 9 are those of the docstring's example; on every string over them
\* the decimal rounding above gives what the float arithmetic of the code gives
PriceAlphabet == {Baht, ",", ".", "7", "9", "N"}

ExamplePrices ==
    {<<Baht, "7", ",", "9", "9", "9">>, <<"N", "/", "A">>, <<Baht, "N", "/", "A">>}

PriceInputs ==
    UNION {[1 .. n -> PriceAlphabet] : n \in 0 .. MaxPriceLen} \cup ExamplePrices

PriceInit == InitState /\ catalog = << >> /\ price_in \in PriceInputs

\* one call convert_price_to_usd(price_in)
Convert ==
    /\ price_out = << >>
    /\ price_out' = << convert_price_to_usd(price_in) >>
    /\ UNCHANGED <<serviceVars, pipelineVars, price_in>>

PriceNext == Convert

PriceSpec == PriceInit /\ [][PriceNext]_vars

(***************************************************************************)
(* The embedding pipeline: read_products_data, create_embeddings,          *)
(* save_to_vector_db, save_daily_snapshot.  A cell or field is written as  *)
(* Python's str() writes its value: the int 79 is "79", the float 79.0 is  *)
(* "79.0", the float NaN is "nan".  Spelling lists the characters of every *)
(* string the pipeline handles.                                            *)
(***************************************************************************)

NaN == "nan"

Spelling ==
    {<<"", << >> >>,
     <<"x", <<"x">> >>,
     <<"0", <<"0">> >>,
     <<"0.0", <<"0", ".", "0">> >>,
     <<"7", <<"7">> >>,
     <<"7.0", <<"7", ".", "0">> >>,
     <<"79", <<"7", "9">> >>,
     <<"7.9", <<"7", ".", "9">> >>,
     <<"79.0", <<"7", "9", ".", "0">> >>,
     <<"7,979", <<"7", ",", "9", "7", "9">> >>,
     <<"B7,999", <<Baht, "7", ",", "9", "9", "9">> >>,
     <<"$279.97", <<"$", "2", "7", "9", ".", "9", "7">> >>,
     <<"N/A", <<"N", "/", "A">> >>,
     <<"Bx", <<Baht, "x">> >>,
     <<"P1", <<"P", "1">> >>,
     <<"P2", <<"P", "2">> >>,
     <<"Phone", <<"P", "h", "o", "n", "e">> >>,
     <<"Laptop", <<"L", "a", "p", "t", "o", "p">> >>,
     <<"Electronics", <<"E", "l", "e", "c", "t", "r", "o", "n", "i", "c", "s">> >>,
     <<"Computers", <<"C", "o", "m", "p", "u", "t", "e", "r", "s">> >>,
     <<"Smartphones", <<"S", "m", "a", "r", "t", "p", "h", "o", "n", "e", "s">> >>,
     <<"Laptops", <<"L", "a", "p", "t", "o", "p", "s">> >>}

Chars(str) == (CHOOSE sp \in Spelling : sp[1] = str)[2]

Str(chars) == (CHOOSE sp \in Spelling : sp[2] = chars)[1]

RECURSIVE TrimZeros(_)
TrimZeros(ds) ==
    IF Len(ds) > 1 /\ ds[Len(ds)] = "0" THEN TrimZeros(SubSeq(ds, 1, Len(ds) - 1)) ELSE ds

\* the whole part of a parsed number: int(x)
IntValue(s) == Mantissa(s) \div Pow10(Scale(s))

\* a float64 cell, written as Python writes the float
FloatRepr(s) ==
    Digits(IntValue(s)) \o << "." >>
        \o (IF Scale(s) = 0 THEN << "0" >>
            ELSE TrimZeros(SubSeq(s, Len(s) - Scale(s) + 1, Len(s))))

\* the cells pd.read_csv reads as missing, in every column: its default na_values
NaValues ==
    {"", "#N/A", "#N/A N/A", "#NA", "-1.#IND", "-1.#QNAN", "-NaN", "-nan", "1.#IND",
     "1.#QNAN", "<NA>", "N/A", "NA", "NULL", "NaN", "None", "n/a", "nan", "null"}

\* a cell, or a value of the DataFrame, that is a number
Numeric(cell) == cell \notin NaValues /\ ParsesAsFloat(Chars(cell))

\* ... and a whole one, written without a point
IntLiteral(cell) ==
    /\ Numeric(cell)
    /\ \A i \in DOMAIN Chars(cell) : IsDigit(Chars(cell)[i])

\* read_csv infers a column's dtype from all of its cells: int64 when each is a whole
\* number, float64 when each is a number or missing, object (str and NaN) otherwise
ColumnKind(csv, f) ==
    IF \A i \in DOMAIN csv : IntLiteral(csv[i][f]) THEN "int64"
    ELSE IF \A i \in DOMAIN csv : csv[i][f] \in NaValues \/ Numeric(csv[i][f])
         THEN "float64"
         ELSE "object"

\* pd.read_csv(csv_path), line 33: the DataFrame, one record per row
read_csv(csv) ==
    [i \in DOMAIN csv |->
        [f \in DOMAIN csv[i] |->
            IF csv[i][f] \in NaValues THEN NaN
            ELSE IF ColumnKind(csv, f) = "int64"
                 THEN Str(Digits(IntValue(Chars(csv[i][f]))))
                 ELSE IF ColumnKind(csv, f) = "float64"
                      THEN Str(FloatRepr(Chars(csv[i][f])))
                      ELSE csv[i][f]]]

ToNumericZero(cell) == IF Numeric(cell) THEN Str(FloatRepr(Chars(cell))) ELSE "0.0"

\* pd.to_numeric(column, errors="coerce") on one value of a column that is not int64:
\* a float stays, a str is parsed, NaN and what does not parse are NaN
ToNumeric(cell) ==
    IF Numeric(cell) THEN Str(FloatRepr(Chars(cell))) ELSE NaN

\* pd.to_numeric(df[f], errors="coerce"): an int64 column is returned as it is; any
\* other column holds a NaN or has one coerced in, and comes out float64
to_numeric(df, f) ==
    [i \in DOMAIN df |->
        IF ColumnKind(df, f) = "int64" THEN df[i][f] ELSE ToNumeric(df[i][f])]

CatalogRow(id, name, main, sub, ratings, n, price) ==
    [product_id |-> id, product_name |-> name, main_category |-> main,
     sub_category |-> sub, ratings |-> ratings, no_of_ratings |-> n, price |-> price]

Row1 == CatalogRow("P1", "Phone", "Electronics", "Smartphones", "7.9", "79", "B7,999")
Row2 == CatalogRow("P2", "Laptop", "Computers", "Laptops", "", "7,979", "N/A")
Row3 == CatalogRow("P1", "Laptop", "Computers", "Laptops", "x", "", "Bx")
Row4 == CatalogRow("P2", "Phone", "Electronics", "Smartphones", "7.9", "7.9", "B7,999")

\* the contents data/products.csv takes
Catalogs == {<<Row1>>, <<Row1, Row2>>, <<Row3, Row4>>, <<Row1, Row3>>}

\* read_products_data: read_csv, then to_numeric on ratings and on no_of_ratings
ReadProductsData(csv) ==
    LET df == read_csv(csv)
    IN  [i \in DOMAIN df |->
            [df[i] EXCEPT !.ratings = to_numeric(df, "ratings")[i],
                          !.no_of_ratings = to_numeric(df, "no_of_ratings")[i]]]

\* model.encode(text): a function of the text, which the template builds from
\* product_name, main_category and sub_category
Encode(name, main, sub) ==
    IF name = "Phone" THEN VecA ELSE IF name = "Laptop" THEN VecB ELSE VecC

\* create_embeddings, lines 87-93: no_of_ratings
IntOrNone(value) == IF value = NaN THEN None ELSE Str(Digits(IntValue(Chars(value))))

\* create_embeddings, lines 95-96: ratings
NoneIfNaN(value) == IF value = NaN THEN None ELSE value

\* create_embeddings, line 85: convert_price_to_usd(product_dict["price"]).  Only a
\* str has .replace: the NaN of a missing price, and the number of a price column
\* that read_csv made numeric, raise AttributeError and are returned as they are
PriceUsd(df, i) ==
    IF df[i].price # NaN /\ ColumnKind(df, "price") = "object"
    THEN Str(convert_price_to_usd(Chars(df[i].price)))
    ELSE df[i].price

\* create_embeddings: one product_dict per row of the DataFrame
create_embeddings(df) ==
    [i \in DOMAIN df |->
        [product_id |-> df[i].product_id, product_name |-> df[i].product_name,
         main_category |-> df[i].main_category, sub_category |-> df[i].sub_category,
         ratings |-> NoneIfNaN(df[i].ratings),
         no_of_ratings |-> IntOrNone(df[i].no_of_ratings),
         price |-> df[i].price,
         price_usd |-> PriceUsd(df, i),
         embedding |-> << Encode(df[i].product_name, df[i].main_category,
                                 df[i].sub_category) >>]]

RequiredFields == {"product_id", "product_name", "main_category", "sub_category", "price"}

\* pydantic's Optional[float] field: None stays, a number becomes a float
FloatField(value) == IF value = None THEN None ELSE Str(FloatRepr(Chars(value)))

\* Product.from_dict(data): << the product >>, or << >> when validation fails.  A str
\* field takes a number or NaN as its str(), which is how this model writes it already
from_dict(data) ==
    IF RequiredFields \subseteq DOMAIN data
    THEN << Product(data.product_id, data.product_name, data.main_category,
                    data.sub_category,
                    IF "ratings" \in DOMAIN data THEN FloatField(data.ratings) ELSE None,
                    IF "no_of_ratings" \in DOMAIN data THEN data.no_of_ratings ELSE None,
                    data.price,
                    IF "price_usd" \in DOMAIN data THEN data.price_usd ELSE None,
                    IF "embedding" \in DOMAIN data THEN data.embedding ELSE << >>) >>
    ELSE << >>

RECURSIVE ProductsFrom(_, _)
ProductsFrom(products_data, i) ==
    IF i > Len(products_data) THEN << >>
    ELSE from_dict(products_data[i]) \o ProductsFrom(products_data, i + 1)

\* save_to_vector_db, lines 108-114: the rows from_dict accepts, in order
ValidProducts(products_data) == ProductsFrom(products_data, 1)

\* dicts handed to save_to_vector_db on its own
Dict(id, emb) ==
    [product_id |-> id, product_name |-> "Phone", main_category |-> "Electronics",
     sub_category |-> "Smartphones", ratings |-> None, no_of_ratings |-> None,
     price |-> "N/A", price_usd |-> "N/A", embedding |-> emb]

NoProductId ==
    [product_name |-> "Phone", main_category |-> "Electronics",
     sub_category |-> "Smartphones", price |-> "N/A", embedding |-> << VecC >>]

PersistDicts ==
    {Dict("P1", << VecA >>), Dict("P2", << VecB >>), Dict("P3", << >>),
     Dict("P4", << << >> >>), NoProductId}

PersistInputs == UNION {[1 .. n -> PersistDicts] : n \in 0 .. MaxBatch}

PipelineInit == InitState /\ catalog \in Catalogs /\ price_in = << >>

\* product_embedding_pipeline starts: df = read_products_data(csv_path)
PipelineRead(c) ==
    /\ pc[c] = "idle"
    /\ Goto(c, "transform")
    /\ op' = [op EXCEPT ![c] = "pipeline"]
    /\ arg' = [arg EXCEPT ![c] = catalog]
    /\ rows' = [rows EXCEPT ![c] = ReadProductsData(catalog)]
    /\ UNCHANGED <<collections, index, product, embedding, hits, outcome, faulted, stored>>
    /\ UNCHANGED <<upserts, pre_collections, pre_index, same_runs>>
    /\ UNCHANGED <<catalog, snapshots, today, price_in, price_out>>

\* products_with_embeddings = create_embeddings(df)
CreateEmbeddings(c) ==
    /\ pc[c] = "transform"
    /\ Goto(c, "persist")
    /\ rows' = [rows EXCEPT ![c] = create_embeddings(rows[c])]
    /\ UNCHANGED <<collections, index, op, arg, product, embedding, hits, outcome, faulted>>
    /\ UNCHANGED <<stored, upserts, pre_collections, pre_index, same_runs>>
    /\ UNCHANGED <<catalog, snapshots, today, price_in, price_out>>

\* save_to_vector_db(products_data) called on its own
Persist(c, inputs) ==
    /\ pc[c] = "idle"
    /\ \E products_data \in inputs :
        /\ arg' = [arg EXCEPT ![c] = products_data]
        /\ rows' = [rows EXCEPT ![c] = products_data]
    /\ Goto(c, "persist")
    /\ op' = [op EXCEPT ![c] = "save_to_vector_db"]
    /\ UNCHANGED <<collections, index, product, embedding, hits, outcome, faulted, stored>>
    /\ UNCHANGED <<upserts, pre_collections, pre_index, same_runs>>
    /\ UNCHANGED <<catalog, snapshots, today, price_in, price_out>>

SaveToVectorDb(c) == Persist(c, PersistInputs)

\* save_to_vector_db, line 106: repository = QdrantProductRepository()
PersistConstruct(c) == EnsureCollection(c, "persist", "persist_create", "persist_save")

PersistCreate(c) == CreateMissing(c, "persist_create", "persist_save")

\* save_to_vector_db, lines 108-116: build the products, then one batch_save_products;
\* an exception of batch_save_products leaves the task and the flow
PersistSave(c) ==
    /\ pc[c] = "persist_save"
    /\ IF op[c] = "pipeline"
       THEN BatchSave(c, ValidProducts(rows[c]),
                      Goto(c, "snapshot") /\ UNCHANGED <<outcome, faulted>>,
                      Min(same_runs + 1, MaxRuns), Min(same_runs + 1, MaxRuns))
       ELSE BatchSave(c, ValidProducts(rows[c]), Finish(c, Saved, FALSE), same_runs, 0)
    /\ UNCHANGED <<collections, op, arg, product, embedding, hits>>
    /\ UNCHANGED <<pre_collections, pre_index, offlineVars>>

\* save_daily_snapshot: snapshots/date=<today>/products.parquet is (re)written
SaveDailySnapshot(c) ==
    /\ pc[c] = "snapshot"
    /\ snapshots' = [snapshots EXCEPT ![today] = << rows[c] >>]
    /\ Finish(c, Saved, FALSE)
    /\ UNCHANGED <<collections, index, op, arg, product, embedding, hits, stored>>
    /\ UNCHANGED <<upserts, pre_collections, pre_index, same_runs>>
    /\ UNCHANGED <<catalog, rows, today, price_in, price_out>>

\* data/products.csv is replaced between runs
EditCatalog ==
    /\ \A c \in Clients : pc[c] = "idle"
    /\ \E csv \in Catalogs \ {catalog} : catalog' = csv
    /\ same_runs' = 0
    /\ UNCHANGED <<collections, index, pc, op, arg, product, embedding, hits, outcome>>
    /\ UNCHANGED <<faulted, stored, upserts, pre_collections, pre_index>>
    /\ UNCHANGED <<rows, snapshots, today, price_in, price_out>>

\* the date changes
Midnight ==
    /\ today < MaxDays
    /\ today' = today + 1
    /\ UNCHANGED <<serviceVars, same_runs>>
    /\ UNCHANGED <<catalog, rows, snapshots, price_in, price_out>>

PipelineStep(c) ==
    \/ PipelineRead(c)
    \/ CreateEmbeddings(c)
    \/ SaveToVectorDb(c)
    \/ PersistConstruct(c)
    \/ PersistCreate(c)
    \/ PersistSave(c)
    \/ SaveDailySnapshot(c)
    \/ Return(c)

\* one pipeline run or persist task at a time, between edits of the catalog
PipelineNext ==
    \/ \E c \in SeqClients : PipelineStep(c)
    \/ EditCatalog
    \/ Midnight

PipelineSpec == PipelineInit /\ [][PipelineNext]_vars

(***************************************************************************)
(* Overlapping callers.  The service's worker processes and the pipeline   *)
(* share nothing but the index, so their Qdrant calls interleave freely.   *)
(***************************************************************************)

\* the products_data of pipeline runs on two catalogs that differ in product P1:
\* its name, categories and with them its embedding
RaceBatches ==
    {create_embeddings(ReadProductsData(<<Row1, Row4>>)),
     create_embeddings(ReadProductsData(<<Row3, Row4>>))}

\* the product whose row differs between the two catalogs
RaceIds == {"P1"}

RaceLimits == {<< 1 >>}

\* a request for one of the products the pipeline writes
RaceRequest(c) == Request(c, RaceIds, RaceLimits)

\* the persist stage of a pipeline run
RacePersist(c) == Persist(c, RaceBatches)

RaceStep(c) ==
    \/ Construct(c)
    \/ CreateCollection(c)
    \/ RaceRequest(c)
    \/ ExecGetProduct(c)
    \/ FindGetProduct(c)
    \/ FindRetrieveVector(c)
    \/ FindSearch(c)
    \/ RacePersist(c)
    \/ PersistConstruct(c)
    \/ PersistCreate(c)
    \/ PersistSave(c)
    \/ Return(c)

\* requests and persist stages overlap
RaceNext == \E c \in Clients : RaceStep(c)

RaceSpec == Init /\ [][RaceNext]_vars

\* a server that holds the collection and the products of a first pipeline run
RefreshIndex ==
    /\ collections = {[name |-> CollectionName, size |-> VectorSize, distance |-> "Cosine"]}
    /\ index = Upsert([id \in Ids |-> NoPoint],
                      BatchPoints(ValidProducts(create_embeddings(ReadProductsData(<<Row1, Row4>>)))))
    /\ stored = Remember([id \in Ids |-> << >>],
                         ValidProducts(create_embeddings(ReadProductsData(<<Row1, Row4>>))))

RefreshInit == RefreshIndex /\ InitClients /\ catalog = << >> /\ price_in = << >>

RefreshStep(c) ==
    \/ Construct(c)
    \/ RaceRequest(c)
    \/ ExecGetProduct(c)
    \/ FindGetProduct(c)
    \/ FindRetrieveVector(c)
    \/ FindSearch(c)
    \/ RacePersist(c)
    \/ PersistConstruct(c)
    \/ PersistSave(c)
    \/ Return(c)

\* requests overlap with the persist stages of later pipeline runs
RefreshNext == \E c \in Clients : RefreshStep(c)

RefreshSpec == RefreshInit /\ [][RefreshNext]_vars

\* products saved before the service takes requests: three smartphones, two of them
\* with the same embedding, and a laptop
ServedProducts ==
    << VariantProduct("P1", 1, << VecA >>), VariantProduct("P2", 1, << VecB >>),
       VariantProduct("P3", 1, << VecB >>), VariantProduct("P4", 2, << VecC >> ) >>

\* a server holding the collection and those products
ServingIndex ==
    /\ collections = {[name |-> CollectionName, size |-> VectorSize, distance |-> "Cosine"]}
    /\ index = Upsert([id \in Ids |-> NoPoint], BatchPoints(ServedProducts))
    /\ stored = Remember([id \in Ids |-> << >>], ServedProducts)

ServingInit == ServingIndex /\ InitClients /\ catalog = << >> /\ price_in = << >>

\* no limit parameter, which asks for the default and so for every peer, or the
\* smallest limit, which cuts the ranking
ServingLimits == {<< >>, << 1 >>}

\* a product whose two peers are equally near, one with a nearest peer, one without peers
ServingIds == {"P1", "P2", "P4"}

ServingRequest(c) == Request(c, ServingIds, ServingLimits)

ServingStep(c) ==
    \/ Construct(c)
    \/ ServingRequest(c)
    \/ ExecGetProduct(c)
    \/ FindGetProduct(c)
    \/ FindRetrieveVector(c)
    \/ FindSearch(c)
    \/ Return(c)

\* requests overlap; nothing writes
ServingNext == \E c \in Clients : ServingStep(c)

ServingSpec == ServingInit /\ [][ServingNext]_vars

(***************************************************************************)
(* The index as a store, the constructor and the route's limit check       *)
(***************************************************************************)

\* the point of id holds what the last accepted upsert for id carried
HoldsLastUpsert(id) ==
    IF stored[id] = << >> THEN index[id] = NoPoint
    ELSE /\ index[id] # NoPoint
         /\ index[id][1].vector = stored[id][1].embedding[1]
         /\ \A f \in DOMAIN index[id][1].payload :
                index[id][1].payload[f] = stored[id][1][f]
         /\ index[id][1].payload.product_id = id

\* a step changes the point of id only when it is an upsert whose argument names id
OnlyNamedIdsChange ==
    \A id \in Ids :
        index'[id] # index[id]
        => \E c \in Clients :
              /\ pc[c] = "ready" /\ pc'[c] = "done"
              /\ op'[c] \in {"save_product", "batch_save_products"}
              /\ outcome'[c] = Saved
              /\ id \in (IF op'[c] = "save_product" THEN {arg'[c].product_id}
                         ELSE {arg'[c][i].product_id : i \in DOMAIN arg'[c]})

\* C12: after any sequence of save_product / batch_save_products the index holds at
\* most one point per product_id, with the vector and payload of the most recent
\* accepted upsert for that id, and an upsert changes no point of another id.
C12_LastUpsertWins ==
    /\ [](\A id \in Ids : HoldsLastUpsert(id))
    /\ [][OnlyNamedIdsChange]_vars

\* a save of P1 was accepted while P2, saved earlier as a laptop, is in the index
C12_Witness ==
    \E c \in Clients :
        /\ pc[c] = "done" /\ op[c] = "save_product" /\ outcome[c] = Saved
        /\ arg[c].product_id = "P1" /\ arg[c].product_name = "Laptop"
        /\ stored["P2"] # << >> /\ stored["P2"][1].product_name = "Laptop"
        /\ index["P2"] # NoPoint

\* C16: a request with an explicit limit of 0 or less is answered 400 and the use
\* case is not executed.
C16_NonPositiveLimitRejected ==
    \A c \in Clients :
        (op[c] = "recommend" /\ arg[c].query_limit # << >> /\ arg[c].query_limit[1] <= 0)
        => (pc[c] = "done" /\ outcome[c] = BadRequest)

\* C17: a recommend request leaves the index as it found it: the set of collections
\* (and every point) is the same after the request as before it.
C17_RecommendOnlyReads ==
    \A c \in Clients :
        Answered(c) => (collections = pre_collections[c] /\ index = pre_index[c])

ConfiguredCollection ==
    [name |-> CollectionName, size |-> VectorSize, distance |-> "Cosine"]

\* C18: _ensure_collection_exists run in sequence is idempotent: it reaches
\* create_collection only when the collection is absent and then creates it with the
\* configured size and cosine distance; when the collection is present nothing changes
\* and no construction fails.
C18_EnsureIdempotent ==
    \A c \in Clients :
        /\ pc[c] = "create" => ~CollectionExists(collections)
        /\ op[c] # "construct"
        /\ pc[c] \notin {"idle", "create"}
           => /\ collections = {ConfiguredCollection}
              /\ CollectionExists(pre_collections[c]) => collections = pre_collections[c]

\* a repository was constructed on a server that already had the collection and points
C18_Witness ==
    \E c \in Clients :
        /\ pc[c] = "ready"
        /\ CollectionExists(pre_collections[c])
        /\ \E id \in Ids : index[id] # NoPoint

AllEmbedded(products) == \A i \in DOMAIN products : ~NoEmbedding(products[i])

\* C20: batch_save_products on a non-empty list whose products all carry an embedding
\* issues exactly one upsert, with one point per product in input order (id the
\* product_id, vector the embedding); on the empty list it issues none.
C20_OneUpsertInOrder ==
    \A c \in Clients :
        (pc[c] = "done" /\ op[c] = "batch_save_products" /\ AllEmbedded(arg[c]))
        => IF arg[c] = << >> THEN upserts[c] = << >>
           ELSE /\ Len(upserts[c]) = 1
                /\ Len(upserts[c][1]) = Len(arg[c])
                /\ \A i \in DOMAIN arg[c] :
                       /\ upserts[c][1][i].id = arg[c][i].product_id
                       /\ upserts[c][1][i].vector = arg[c][i].embedding[1]

\* a batch of two different products was saved
C20_Witness ==
    \E c \in Clients :
        /\ pc[c] = "done" /\ op[c] = "batch_save_products" /\ outcome[c] = Saved
        /\ Len(arg[c]) = 2 /\ arg[c][1].product_id # arg[c][2].product_id
        /\ Len(upserts[c]) = 1

\* C14: convert_price_to_usd never raises, and for an input that does not parse as a
\* number after stripping it returns the input string exactly as given.
C14_UnparseableReturnedAsGiven ==
    (price_out # << >> /\ ~ParsesAsFloat(Strip(price_in))) => price_out[1] = price_in

(***************************************************************************)
(* The pipeline's runs                                                     *)
(***************************************************************************)

\* C11: a pipeline run on a catalog that an earlier run already persisted, with nothing
\* else written in between, leaves the index as that earlier run left it: the same ids,
\* each with the same vector and payload.
C11_RerunLeavesIndexUnchanged ==
    [][\A c \in Clients :
          (pc[c] = "persist_save" /\ op[c] = "pipeline" /\ same_runs >= 1
             /\ pc'[c] # "persist_save")
          => (pc'[c] = "snapshot" /\ index' = index /\ collections' = collections)]_vars

\* a second run on a two-row catalog has finished
C11_Witness ==
    \E c \in Clients :
        /\ pc[c] = "done" /\ op[c] = "pipeline" /\ outcome[c] = Saved
        /\ same_runs = 2
        /\ Len(arg[c]) = 2
        /\ \A i \in DOMAIN arg[c] : index[arg[c][i].product_id] # NoPoint

\* a dict save_to_vector_db can turn into a point: it has the product's fields and a
\* non-empty embedding
Indexable(data) ==
    /\ RequiredFields \subseteq DOMAIN data
    /\ "embedding" \in DOMAIN data
    /\ data.embedding # << >>
    /\ data.embedding[1] # << >>

\* C13: the persist stage skips a row that is no valid indexable product (no product_id,
\* no or empty embedding) on its own: the stage does not raise and every valid row is
\* upserted.
C13_BadRowSkippedAlone ==
    \A c \in Clients :
        (pc[c] = "done" /\ op[c] = "save_to_vector_db")
        => /\ outcome[c] = Saved
           /\ \A i \in DOMAIN arg[c] :
                  Indexable(arg[c][i])
                  => \E k \in DOMAIN upserts[c] : \E j \in DOMAIN upserts[c][k] :
                         upserts[c][k][j].id = arg[c][i].product_id

\* cells that are blank or no number
NotANumber == {"", "x", "7,979"}

PastTransform(c) ==
    /\ op[c] = "pipeline"
    /\ pc[c] \in {"persist", "persist_create", "persist_save", "snapshot", "done"}

\* the last row of the run that carries product_id id
LastRowOf(c, id) ==
    CHOOSE i \in DOMAIN rows[c] :
        /\ rows[c][i].product_id = id
        /\ \A j \in DOMAIN rows[c] : rows[c][j].product_id = id => j <= i

\* C15: a blank or unparseable no_of_ratings becomes None and a blank ratings becomes
\* None; neither becomes zero, the row stays in the batch and is indexed, the run ends
\* without error.
C15_BlankNumbersBecomeNone ==
    \A c \in Clients :
        PastTransform(c)
        => /\ Len(rows[c]) = Len(arg[c])
           /\ \A i \in DOMAIN arg[c] :
                  /\ arg[c][i].no_of_ratings \in NotANumber
                     => rows[c][i].no_of_ratings = None
                  /\ arg[c][i].ratings \in NotANumber => rows[c][i].ratings = None
           /\ pc[c] = "done"
              => /\ outcome[c] = Saved
                 /\ \A i \in DOMAIN rows[c] :
                        LET id == rows[c][i].product_id
                            last == rows[c][LastRowOf(c, id)]
                        IN  /\ index[id] # NoPoint
                            /\ index[id][1].payload.ratings = last.ratings
                            /\ index[id][1].payload.no_of_ratings = last.no_of_ratings

\* a run over a row with a blank ratings and an unparseable no_of_ratings has finished
C15_Witness ==
    \E c \in Clients :
        /\ pc[c] = "done" /\ op[c] = "pipeline"
        /\ \E i \in DOMAIN arg[c] :
              /\ arg[c][i].ratings = "" /\ arg[c][i].no_of_ratings = "7,979"
              /\ index[arg[c][i].product_id] # NoPoint
              /\ index[arg[c][i].product_id][1].payload.no_of_ratings = None

\* C19: a snapshot file, once written, is never modified or replaced by a later run,
\* a second run on the same date included.
C19_SnapshotNeverRewritten ==
    [][\A d \in Dates : snapshots[d] # << >> => snapshots'[d] = snapshots[d]]_vars

(***************************************************************************)
(* The use case's projection and the batch's validation                    *)
(***************************************************************************)

\* what find_similar_products returned to execute
Similar(c) == Truncate(ExcludeSelf(hits[c], arg[c].product_id), arg[c].limit)

\* C22: execute returns one result per (product, score) pair of find_similar_products,
\* in the same order and with the score as distance: nothing is reordered, dropped,
\* duplicated or re-scored.
C22_ProjectionKeepsPairs ==
    \A c \in Clients :
        (Answered(c) /\ outcome[c].kind = "recommendations")
        => /\ Len(outcome[c].results) = Len(Similar(c))
           /\ \A i \in DOMAIN outcome[c].results :
                  /\ outcome[c].results[i].product.product_id
                        = Similar(c)[i].product.product_id
                  /\ outcome[c].results[i].product.sub_category
                        = Similar(c)[i].product.sub_category
                  /\ outcome[c].results[i].distance = Similar(c)[i].score

\* two products with different scores were returned for a limit of 2
C22_Witness ==
    \E c \in Clients :
        /\ Answered(c) /\ arg[c].limit = 2
        /\ Len(Similar(c)) = 2 /\ Len(outcome[c].results) = 2
        /\ Similar(c)[1].score # Similar(c)[2].score

\* C25: batch_save_products on a list in which some product has no or an empty
\* embedding raises ValueError before any upsert is issued: no product of the list is
\* written, the valid ones before it included, and the index is unchanged.
C25_AllOrNothing ==
    \A c \in Clients :
        (pc[c] = "done" /\ op[c] = "batch_save_products"
           /\ \E i \in DOMAIN arg[c] : NoEmbedding(arg[c][i]))
        => /\ outcome[c] = ValueError
           /\ upserts[c] = << >>
           /\ index = pre_index[c]

\* a batch whose first product is valid and whose second has no embedding was refused
C25_Witness ==
    \E c \in Clients :
        /\ pc[c] = "done" /\ op[c] = "batch_save_products"
        /\ Len(arg[c]) = 2
        /\ ~NoEmbedding(arg[c][1]) /\ arg[c][2].embedding = << << >> >>
        /\ outcome[c] = ValueError

(***************************************************************************)
(* Overlapping callers                                                     *)
(***************************************************************************)

\* C23: when two repositories are constructed at the same time on a server without the
\* collection, create_collection is issued once and neither constructor fails.
C23_RacingConstructorsSucceed ==
    /\ \A c \in Clients : ~(pc[c] = "done" /\ op[c] = "construct")
    /\ Cardinality({c \in Clients : pc[c] \in {"create", "persist_create"}}) <= 1

\* the rankings of k of the other products of id's sub_category in idx: nearest first,
\* none left out that is nearer than one taken
Rankings(idx, id, k) ==
    LET peers == {q \in Ids \ {id} :
                     /\ idx[q] # NoPoint
                     /\ idx[q][1].payload.sub_category = idx[id][1].payload.sub_category}
        n == Min(k, Cardinality(peers))
        Near(q) == CosineScore(idx[id][1].vector, idx[q][1].vector)
    IN  {s \in [1 .. n -> peers] :
            /\ \A i, j \in 1 .. n : i # j => s[i] # s[j]
            /\ \A i \in 1 .. (n - 1) : Near(s[i]) >= Near(s[i + 1])
            /\ \A q \in peers : (\A i \in 1 .. n : s[i] # q)
                                   => \A i \in 1 .. n : Near(q) <= Near(s[i])}

\* the answers recommend gives to request a when it runs alone on index state idx
Alone(idx, a) ==
    IF a.limit < 1 THEN {BadRequest}
    ELSE IF idx[a.product_id] = NoPoint THEN {NotFound}
    ELSE {[kind |-> "recommendations",
           results |-> [i \in DOMAIN s |->
                          [product |-> [product_id |-> s[i],
                                        category |-> idx[s[i]][1].payload.main_category,
                                        sub_category |-> idx[s[i]][1].payload.sub_category,
                                        price |-> None],
                           distance |-> CosineScore(idx[a.product_id][1].vector,
                                                    idx[s[i]][1].vector)]]] :
             s \in Rankings(idx, a.product_id, a.limit)}

\* C21: recommend calls whose index reads interleave, with nothing writing, do not
\* interfere: each returns an answer it gives when it runs alone on that index state.
C21_OverlappingRequestsAnswerAsAlone ==
    \A c \in Clients :
        (Answered(c) /\ ~faulted[c]) => outcome[c] \in Alone(index, arg[c])

\* two requests for different products have both been answered with results
C21_Witness ==
    \E c, d \in Clients :
        /\ c # d /\ Answered(c) /\ Answered(d)
        /\ arg[c].product_id # arg[d].product_id
        /\ outcome[c].results # << >> /\ outcome[d].results # << >>

\* the step in which call c's search returns and the call ends with an answer
SearchAnswers(c) == pc[c] = "find_search" /\ pc'[c] = "done" /\ ~faulted'[c]

\* C24: a recommend call is atomic with respect to an upsert of its anchor that lands
\* between its reads: its answer is the one it gives on the index state before the
\* upsert or on the state after it, never a mixture.
C24_NeverAMixture ==
    [][\A c \in Clients :
          SearchAnswers(c)
          => outcome'[c] \in (Alone(pre_index[c], arg[c]) \cup Alone(index, arg[c]))]_vars

\* at the search the anchor has the sub_category and vector that call c read
ReadsCurrent(c) ==
    /\ index[arg[c].product_id] # NoPoint
    /\ product[c][1].sub_category = index[arg[c].product_id][1].payload.sub_category
    /\ embedding[c][1].vector[1] = index[arg[c].product_id][1].vector

\* C24 (amended): when the anchor's sub_category and vector at the moment of the search
\* are those the call's payload and vector reads returned, the answer is the one
\* recommend gives on the index state at the search, whatever was upserted before.
C24_CurrentReadsGiveCleanAnswer ==
    [][\A c \in Clients :
          (SearchAnswers(c) /\ ReadsCurrent(c)) => outcome'[c] \in Alone(index, arg[c])]_vars

\* a call that began before an upsert changed its anchor was answered with the result
\* of the index state after that upsert
C24_Witness ==
    \E c \in Clients :
        /\ Answered(c) /\ ~faulted[c] /\ outcome[c].results # << >>
        /\ pre_index[c][arg[c].product_id] # NoPoint
        /\ pre_index[c][arg[c].product_id] # index[arg[c].product_id]
        /\ outcome[c] \in Alone(index, arg[c])

====
